---- MODULE Spec2Model ----
(***************************************************************************)
(* Model of dbrxr.DBRXCluster (src/dbrxr/__init__.py): a sequential HTTP   *)
(* client around four endpoints (contexts/create, contexts/destroy,        *)
(* commands/execute, commands/status).                                     *)
(*                                                                         *)
(* The client object's fields are the state.  One public call is in flight *)
(* at a time.  A call that needs no answer from the server, or exactly one *)
(* (create_context, destroy_context), is one action; _execute is a         *)
(* submit step followed by one step per iteration of its poll loop, the    *)
(* server's answer being the input of each step.  The callers of _execute  *)
(* (execute_R, the presence checks, the installers, create_context) are    *)
(* return addresses on the stack "frames".                                 *)
(*                                                                         *)
(* Python values: None, True and False are the strings None, PyTrue and    *)
(* PyFalse; a local that was never assigned is Unbound; what a call gives  *)
(* back is a tagged record (RetNone, RetBool, RetDict, Raise).             *)
(***************************************************************************)
EXTENDS Integers, Sequences, FiniteSets, TLC

\* ------------------------------------------------------------------ bounds
\* Polls one _execute call may make before the model stops following it.
MaxPolls == 3

\* ----------------------------------------------------------- Python values
None == "None"
PyTrue == "True"
PyFalse == "False"
Unbound == "<unbound local>"

\* bool(v) of a str / None / bool value
Truthy(v) == v \notin {None, PyFalse, ""}

RetNone == [kind |-> "None"]
RetBool(b) == [kind |-> "bool", b |-> b]
RetDict(d) == [kind |-> "dict", payload |-> d]
Raise(e) == [kind |-> "raise", exc |-> e]
\* no call has returned yet / a call is running
NoRet == [kind |-> "pending"]

\* --------------------------------------------------------- input domains
Urls == {"https://host/api/1.2"}
Tokens == {"t1"}
\* values the caller later assigns to the attribute api_token
NewTokens == {"t2"}
ClusterIds == {"cl1"}
ContextNames == {"my_execution_context"}
PollingIntervals == {1, 2}
Rpy2Types == {"yes", "no", "check"}
PyPackages == {"numpy"}
RPackages == {"mlflow"}
Commands == {"", "print(42)"}
RCodes == {"1+1"}

\* "id" field of a 200 answer of contexts/create
ContextIds == {"", "c1"}
\* "id" field of a 200 answer of commands/execute (None: JSON null)
RunIds == {None, "r1"}

Non200 == [status_code |-> 500, json |-> [error |-> "error"]]
IdResponse(i) == [status_code |-> 200, json |-> [id |-> i]]
CreateResponses == {Non200} \cup {IdResponse(i) : i \in ContextIds}
DestroyResponses == {Non200, [status_code |-> 200, json |-> [ok |-> "ok"]]}
SubmitResponses == {Non200} \cup {IdResponse(i) : i \in RunIds}

NonTerminal == {"Queued", "Running"}
Statuses == {"Queued", "Running", "Finished", "Failed", "Cancelled"}
NoResults == [resultType |-> None, data |-> None]
Results ==
    {[resultType |-> "text", data |-> d] :
        d \in {"Success", "Failure", "TRUE", "FALSE", "42"}}
    \cup {[resultType |-> "error", data |-> "Traceback"],
          [resultType |-> "table", data |-> "Success"]}
StatusInfo(s, r) == [status |-> s, results |-> r]
StatusResponses ==
    {Non200}
    \cup {[status_code |-> 200, json |-> StatusInfo(s, NoResults)] :
            s \in Statuses \ {"Finished"}}
    \cup {[status_code |-> 200, json |-> StatusInfo("Finished", r)] :
            r \in Results}

\* ------------------------------------------------------------------- state
VARIABLES
    _api_url, _api_token, _headers, _cluster_id, _context,
    polling_int_sec, rpy2,
    \* control: "idle" between calls, "submit" / "poll" inside _execute
    pc, frames,
    \* locals of the running _execute call
    body, run_id, status, command_info,
    \* the call in flight or last finished: its name and argument, the
    \* client state when it started, what was sent (requests, sleeps) and
    \* what it gave back
    call, pre, trace, ret,
    \* answers received so far by the status requests of the running (or
    \* last run) _execute call
    answers,
    \* answers received so far by the POST requests of the call (create,
    \* destroy, submit), in the order the requests were sent
    replies

client == <<_api_url, _api_token, _headers, _cluster_id, _context,
            polling_int_sec, rpy2>>
locals == <<body, run_id, status, command_info>>
vars == <<_api_url, _api_token, _headers, _cluster_id, _context,
          polling_int_sec, rpy2, pc, frames, body, run_id, status,
          command_info, call, pre, trace, ret, answers, replies>>

\* The client's fields as one record (snapshot taken when a call starts).
ClientState ==
    [api_url |-> _api_url, api_token |-> _api_token, headers |-> _headers,
     cluster_id |-> _cluster_id, context |-> _context,
     polling_int_sec |-> polling_int_sec, rpy2 |-> rpy2]

Headers(token) ==
    [Authorization |-> "Bearer " \o token,
     ContentType |-> "application/json"]

\* __init__(api_url, api_token, polling_int_sec, rpy2)
Rpy2Flag(t) == IF t = "yes" THEN PyTrue ELSE IF t = "no" THEN PyFalse ELSE None

Init ==
    /\ _api_url \in Urls
    /\ _api_token \in Tokens
    /\ _headers = Headers(_api_token)
    /\ _cluster_id = None
    /\ _context = None
    /\ polling_int_sec \in PollingIntervals
    /\ rpy2 \in {Rpy2Flag(t) : t \in Rpy2Types}
    /\ pc = "idle"
    /\ frames = <<>>
    /\ body = Unbound /\ run_id = Unbound /\ status = Unbound
    /\ command_info = Unbound
    /\ call = [op |-> "__init__", arg |-> None]
    /\ pre = ClientState
    /\ trace = <<>>
    /\ ret = NoRet
    /\ answers = <<>>
    /\ replies = <<>>

\* ------------------------------------------------------ what a call sends
Post(url, headers, data) ==
    [ev |-> "request", method |-> "POST", url |-> url, headers |-> headers,
     data |-> data]
Get(url, headers, params) ==
    [ev |-> "request", method |-> "GET", url |-> url, headers |-> headers,
     params |-> params]
Sleep(sec) == [ev |-> "sleep", sec |-> sec]

\* --------------------------------------------------- generated code text
python_probe_code(package) ==
    "try: import " \o package
      \o "; print('Success') except ImportError: print('Failure')"
r_probe_code(package) ==
    "import rpy2.robjects as robjects; res = robjects.r('" \o package
      \o " %in% rownames(installed.packages())'); print(res.r_repr())"
pip_install_code(package) ==
    "import subprocess; subprocess.check_output(['pip', 'install', '"
      \o package \o "'])"
r_install_code(package) ==
    "import subprocess; subprocess.check_output(['R', '-e', install.packages('"
      \o package
      \o "', dependencies=TRUE, repos='http://cran.rstudio.com/')])"
r_wrap_code(r_code) ==
    "import rpy2.robjects as robjects; res = robjects.r('"
      \o r_code \o "'); res.r_repr()"

\* ------------------------------------------------------ presence checks
\* (variant: anything that is not "Success" counts as not installed)
python_package_installed_lenient(res) ==
    IF res.kind = "dict"
       /\ res.payload.results.resultType = "text"
       /\ res.payload.results.data = "Success"
    THEN RetBool(PyTrue) ELSE RetBool(PyFalse)

\* _python_package_installed after its _execute call returned res.
\* A bare "raise" with no active exception is a RuntimeError.
python_package_installed_result(res) ==
    IF res.kind = "dict"
    THEN LET res_type == res.payload.results.resultType
             data == res.payload.results.data
         IN  IF res_type = "text" /\ data = "Success" THEN RetBool(PyTrue)
             ELSE IF res_type = "text" /\ data = "Failure"
                  THEN RetBool(PyFalse)
             ELSE IF res_type = "error" THEN Raise("RuntimeError")
             ELSE Raise("RuntimeError")
    ELSE Raise("RuntimeError")

\* _r_package_installed after its _execute call returned res.
r_package_installed_result(res) ==
    IF res.kind = "dict"
    THEN LET res_type == res.payload.results.resultType
             data == res.payload.results.data
         IN  IF res_type = "text" /\ data = "TRUE" THEN RetBool(PyTrue)
             ELSE IF res_type = "text" /\ data = "FALSE"
                  THEN RetBool(PyFalse)
             ELSE IF res_type = "error" THEN Raise("RuntimeError")
             ELSE Raise("RuntimeError")
    ELSE Raise("RuntimeError")

\* lines 123 and 145: "if (self._..._package_installed(package)):" with the
\* boolean r the presence check returned
already_installed_inverted(r) == r.b = PyFalse
already_installed(r) == r.b = PyTrue

\* ------------------------------------------------ the callers of _execute
\* A frame is the place a caller waits for the value of the call it made.
Frame(fn, line, package) == [fn |-> fn, line |-> line, package |-> package]
PyProbeFrame(p) == Frame("_python_package_installed", 201, p)
RProbeFrame(p) == Frame("_r_package_installed", 168, p)

Returned(r, flag) == [kind |-> "return", ret |-> r, rpy2 |-> flag]
Calls(cmd, frs, flag) ==
    [kind |-> "call", command |-> cmd, frames |-> frs, rpy2 |-> flag]

\* What happens when the innermost call gives r back to the callers frs,
\* the R-interop flag being flag: either the public call ends (Returned)
\* or a caller goes on to its next _execute call (Calls).  No caller
\* catches an exception, so a raise goes straight to the top.
RECURSIVE Unwind(_, _, _)
Unwind(frs, r, flag) ==
    IF r.kind = "raise" \/ frs = <<>> THEN Returned(r, flag)
    ELSE
    LET f == frs[Len(frs)]
        rest == SubSeq(frs, 1, Len(frs) - 1)
    IN  CASE f.fn = "_python_package_installed" ->
               Unwind(rest, python_package_installed_result(r), flag)
          [] f.fn = "_r_package_installed" ->
               Unwind(rest, r_package_installed_result(r), flag)
          [] f.fn = "execute_R" -> Unwind(rest, r, flag)
          [] f.fn = "create_context" ->
               \* line 110: self.rpy2 = <probe>; line 112: return True
               Unwind(rest, RetBool(PyTrue), r.b)
          [] f.fn = "install_py_package" /\ f.line = 123 ->
               IF already_installed(r) THEN Unwind(rest, RetBool(PyTrue), flag)
               ELSE Calls(pip_install_code(f.package),
                          rest \o <<Frame(f.fn, 132, f.package)>>, flag)
          [] f.fn = "install_py_package" /\ f.line = 132 ->
               Calls(python_probe_code(f.package),
                     rest \o <<Frame(f.fn, 137, f.package),
                               PyProbeFrame(f.package)>>, flag)
          [] f.fn = "install_py_package" /\ f.line = 137 ->
               Unwind(rest, r, flag)
          [] f.fn = "install_R_package" /\ f.line = 145 ->
               IF already_installed(r) THEN Unwind(rest, RetBool(PyTrue), flag)
               ELSE Calls(r_install_code(f.package),
                          rest \o <<Frame(f.fn, 152, f.package)>>, flag)
          [] f.fn = "install_R_package" /\ f.line = 152 ->
               Calls(r_probe_code(f.package),
                     rest \o <<Frame(f.fn, 157, f.package),
                               RProbeFrame(f.package)>>, flag)
          [] f.fn = "install_R_package" /\ f.line = 157 ->
               Unwind(rest, r, flag)

\* ------------------------------------------------------- decisions in code
\* line 87: "if self._context:"
context_exists(ctx) == Truthy(ctx)

\* lines 223, 240, 297: "if self._context is None:"
context_not_set(ctx) == ctx = None

\* line 108: "if self.rpy2 is None:"
needs_probe_if_falsy(flag) == ~Truthy(flag)
needs_probe(flag) == flag = None

\* lines 310-316: what destroy_context returns for the answer resp
destroy_result_always_true(resp) == PyTrue
destroy_result(resp) == IF resp.status_code = 200 THEN PyTrue ELSE PyFalse

\* line 227: "if not self.rpy2:"
rpy2_missing_only_false(flag) == flag = PyFalse
rpy2_missing(flag) == ~Truthy(flag)

\* line 272: "while status == "Running" or status == "Queued":"
poll_again_running_only(st) == st = "Running"
poll_again_until_finished(st) == st # "Finished"
poll_again(st) == st = "Running" \/ st = "Queued"

\* lines 279-283: the tracked status and payload after one status answer
status_after_error_is_failed(resp, st) ==
    IF resp.status_code = 200 THEN resp.json.status ELSE "Failed"
status_after(resp, st) ==
    IF resp.status_code = 200 THEN resp.json.status ELSE st
command_info_after(resp, info) ==
    IF resp.status_code = 200 THEN resp.json ELSE info

\* lines 288-292: what _execute gives back once the loop has ended
execute_result_unless_failed(st, info) ==
    IF st # "Failed" THEN RetDict(info) ELSE RetNone
execute_result(st, info) ==
    IF st = "Finished" THEN RetDict(info) ELSE RetNone

\* lines 259-265: the run id after the submit answer, and what reading it
\* at line 265 leads to when there is nothing to poll
run_id_after(resp, rid) ==
    IF resp.status_code = 200 THEN resp.json.id ELSE rid
no_poll_result(rid) ==
    IF rid = Unbound THEN Raise("UnboundLocalError") ELSE RetNone

\* lines 248-253 and 268-269: the body of the submit and status requests
submit_body(cluster, cmd, ctx) ==
    [language |-> "python", clusterId |-> cluster, command |-> cmd,
     contextId |-> ctx]
status_body_context_as_run(b, rid) ==
    [language |-> b.language, clusterId |-> b.clusterId,
     contextId |-> b.contextId, commandId |-> b.contextId]
status_body(b, rid) ==
    [language |-> b.language, clusterId |-> b.clusterId,
     contextId |-> b.contextId, commandId |-> rid]

\* ----------------------------------------------------------- call control
\* A public call starts: remember it and the client state it started from.
StartCall(op, arg) ==
    /\ pc = "idle"
    /\ call' = [op |-> op, arg |-> arg]
    /\ pre' = ClientState
    /\ answers' = <<>>

\* The public call ends and gives r back; the locals of _execute are gone.
Finish(r) ==
    /\ pc' = "idle"
    /\ frames' = <<>>
    /\ ret' = r
    /\ body' = Unbound /\ run_id' = Unbound /\ status' = Unbound
    /\ command_info' = Unbound

\* _execute(cmd) is entered with callers frs (lines 240-253); its submit
\* request is the next step.  Reads the context as this step leaves it.
Enter(cmd, frs) ==
    IF context_not_set(_context')
    THEN Finish(Raise("ContextNotSetException"))
    ELSE /\ pc' = "submit"
         /\ frames' = frs
         /\ ret' = NoRet
         /\ body' = submit_body(_cluster_id', cmd, _context')
         /\ run_id' = Unbound /\ status' = Unbound
         /\ command_info' = Unbound

\* (variant: the boolean a presence check returns is kept in self.rpy2)
Resume_keeping_probe(r) ==
    LET o == Unwind(frames, r, rpy2)
    IN  /\ rpy2' = IF o.kind = "return" /\ o.ret.kind = "bool"
                   THEN o.ret.b ELSE o.rpy2
        /\ IF o.kind = "return" THEN Finish(o.ret)
           ELSE Enter(o.command, o.frames)

\* The innermost _execute call has given r back.
Resume(r) ==
    LET o == Unwind(frames, r, rpy2)
    IN  /\ rpy2' = o.rpy2
        /\ IF o.kind = "return" THEN Finish(o.ret)
           ELSE Enter(o.command, o.frames)

\* ---------------------------------------------------------------- actions
\* cluster_id setter (lines 73-75)
set_cluster_id(c) ==
    /\ StartCall("cluster_id.setter", c)
    /\ _cluster_id' = c
    /\ trace' = <<>>
    /\ replies' = <<>>
    /\ Finish(RetNone)
    /\ UNCHANGED <<_api_url, _api_token, _headers, _context,
                   polling_int_sec, rpy2>>

\* Assignment to the attribute api_token.  The class binds that name twice:
\* lines 57-67 (token getter and setter) and then lines 81-83, where
\* "@api_url.setter def api_token" rebinds it to api_url's getter with a
\* setter that stores _api_url.  The second binding is the one in effect.
set_api_token(token) ==
    /\ StartCall("api_token.setter", token)
    /\ _api_url' = token
    /\ trace' = <<>>
    /\ replies' = <<>>
    /\ Finish(RetNone)
    /\ UNCHANGED <<_api_token, _headers, _cluster_id, _context,
                   polling_int_sec, rpy2>>

\* create_context(context) with the server's answer resp (lines 85-116)
create_context(context, resp) ==
    /\ StartCall("create_context", context)
    /\ UNCHANGED <<_api_url, _api_token, _headers, _cluster_id,
                   polling_int_sec>>
    /\ IF context_exists(_context)
       THEN /\ trace' = <<>>
            /\ replies' = <<>>
            /\ UNCHANGED <<_context, rpy2>>
            /\ Finish(RetBool(PyFalse))
       ELSE /\ replies' = <<resp>>
            /\ trace' = <<Post(_api_url \o "/contexts/create", _headers,
                               [language |-> "python",
                                clusterId |-> _cluster_id,
                                name |-> context])>>
            /\ IF resp.status_code = 200
               THEN /\ _context' = resp.json.id
                    /\ rpy2' = rpy2
                    /\ IF needs_probe(rpy2)
                       THEN Enter(python_probe_code("rpy2"),
                                  <<Frame("create_context", 110, "rpy2"),
                                    PyProbeFrame("rpy2")>>)
                       ELSE Finish(RetBool(PyTrue))
               ELSE /\ UNCHANGED <<_context, rpy2>>
                    /\ Finish(RetBool(PyFalse))

\* destroy_context() with the server's answer resp (lines 295-316)
destroy_context(resp) ==
    /\ StartCall("destroy_context", None)
    /\ UNCHANGED client
    /\ IF context_not_set(_context)
       THEN /\ trace' = <<>>
            /\ replies' = <<>>
            /\ Finish(Raise("ContextNotSetException"))
       ELSE /\ replies' = <<resp>>
            /\ trace' = <<Post(_api_url \o "/contexts/destroy", _headers,
                               [clusterId |-> _cluster_id,
                                contextId |-> _context])>>
            /\ Finish(RetBool(destroy_result(resp)))

\* _execute(command) called by the user (lines 238-253)
execute(command) ==
    /\ StartCall("_execute", command)
    /\ UNCHANGED client
    /\ trace' = <<>>
    /\ replies' = <<>>
    /\ Enter(command, <<>>)

\* (variant: the flag is looked at before the context)
execute_R_flag_first(r_code) ==
    /\ StartCall("execute_R", r_code)
    /\ UNCHANGED client
    /\ trace' = <<>>
    /\ replies' = <<>>
    /\ IF rpy2_missing(rpy2)
       THEN Finish(RetBool(PyFalse))
       ELSE IF context_not_set(_context)
       THEN Finish(Raise("ContextNotSetException"))
       ELSE Enter(r_wrap_code(r_code), <<Frame("execute_R", 236, None)>>)

\* execute_R(r_code) (lines 221-236)
execute_R(r_code) ==
    /\ StartCall("execute_R", r_code)
    /\ UNCHANGED client
    /\ trace' = <<>>
    /\ replies' = <<>>
    /\ IF context_not_set(_context)
       THEN Finish(Raise("ContextNotSetException"))
       ELSE IF rpy2_missing(rpy2)
       THEN Finish(RetBool(PyFalse))
       ELSE Enter(r_wrap_code(r_code), <<Frame("execute_R", 236, None)>>)

\* install_py_package(package) up to its first _execute call (119-123)
install_py_package(package) ==
    /\ StartCall("install_py_package", package)
    /\ UNCHANGED client
    /\ trace' = <<>>
    /\ replies' = <<>>
    /\ Enter(python_probe_code(package),
             <<Frame("install_py_package", 123, package),
               PyProbeFrame(package)>>)

\* install_R_package(package) up to its first _execute call (141-145)
install_R_package(package) ==
    /\ StartCall("install_R_package", package)
    /\ UNCHANGED client
    /\ trace' = <<>>
    /\ replies' = <<>>
    /\ Enter(r_probe_code(package),
             <<Frame("install_R_package", 145, package),
               RProbeFrame(package)>>)

\* _python_package_installed(package) called by the user (189-201)
python_package_installed(package) ==
    /\ StartCall("_python_package_installed", package)
    /\ UNCHANGED client
    /\ trace' = <<>>
    /\ replies' = <<>>
    /\ Enter(python_probe_code(package), <<PyProbeFrame(package)>>)

\* _r_package_installed(package) called by the user (161-168)
r_package_installed(package) ==
    /\ StartCall("_r_package_installed", package)
    /\ UNCHANGED client
    /\ trace' = <<>>
    /\ replies' = <<>>
    /\ Enter(r_probe_code(package), <<RProbeFrame(package)>>)

\* _execute: the submit request and its answer resp (lines 255-270)
submit(resp) ==
    /\ pc = "submit"
    /\ UNCHANGED <<_api_url, _api_token, _headers, _cluster_id, _context,
                   polling_int_sec, call, pre>>
    /\ answers' = <<>>
    /\ replies' = Append(replies, resp)
    /\ trace' = Append(trace, Post(_api_url \o "/commands/execute",
                                   _headers, body))
    /\ LET rid == run_id_after(resp, run_id)
       IN  IF rid \notin {Unbound, None}
           THEN /\ pc' = "poll"
                /\ run_id' = rid
                /\ body' = status_body(body, rid)
                /\ status' = "Running"
                /\ UNCHANGED <<frames, command_info, ret, rpy2>>
           ELSE Resume(no_poll_result(rid))

\* _execute: one iteration of the poll loop, the status request being
\* answered resp, and what follows the loop when it ends (lines 272-292)
poll(resp) ==
    /\ pc = "poll"
    /\ Len(answers) < MaxPolls
    /\ UNCHANGED <<_api_url, _api_token, _headers, _cluster_id, _context,
                   polling_int_sec, call, pre, replies>>
    /\ trace' = trace \o <<Sleep(polling_int_sec),
                           Get(_api_url \o "/commands/status", _headers,
                               body)>>
    /\ answers' = Append(answers, resp)
    /\ LET st == status_after(resp, status)
           info == command_info_after(resp, command_info)
       IN  IF poll_again(st)
           THEN /\ status' = st
                /\ command_info' = info
                /\ UNCHANGED <<pc, frames, body, run_id, ret, rpy2>>
           ELSE Resume(execute_result(st, info))

Next ==
    \/ \E c \in ClusterIds : set_cluster_id(c)
    \/ \E t \in NewTokens : set_api_token(t)
    \/ \E n \in ContextNames, r \in CreateResponses : create_context(n, r)
    \/ \E r \in DestroyResponses : destroy_context(r)
    \/ \E c \in Commands : execute(c)
    \/ \E c \in RCodes : execute_R(c)
    \/ \E p \in PyPackages : install_py_package(p)
    \/ \E p \in RPackages : install_R_package(p)
    \/ \E p \in PyPackages : python_package_installed(p)
    \/ \E p \in RPackages : r_package_installed(p)
    \/ \E r \in SubmitResponses : submit(r)
    \/ \E r \in StatusResponses : poll(r)

Spec == Init /\ [][Next]_vars

\* ------------------------------------------------------------ termination
\* The poll loop has no attempt bound (lines 272-283).  An iteration past
\* the MaxPolls-th is the same step of the code; the record of the call
\* then keeps what was sent for the first MaxPolls iterations and the last
\* MaxPolls answers.
poll_on(resp) ==
    /\ pc = "poll"
    /\ Len(answers) >= MaxPolls
    /\ UNCHANGED <<_api_url, _api_token, _headers, _cluster_id, _context,
                   polling_int_sec, call, pre, replies, trace>>
    /\ answers' = Append(Tail(answers), resp)
    /\ LET st == status_after(resp, status)
           info == command_info_after(resp, command_info)
       IN  IF poll_again(st)
           THEN /\ status' = st
                /\ command_info' = info
                /\ UNCHANGED <<pc, frames, body, run_id, ret, rpy2>>
           ELSE Resume(execute_result(st, info))

\* The calls that enter the poll loop directly or through a presence
\* check and an install command, on a client that creates its context.
LiveNext ==
    \/ \E n \in ContextNames, r \in CreateResponses : create_context(n, r)
    \/ \E c \in Commands : execute(c)
    \/ \E p \in PyPackages : install_py_package(p)
    \/ \E r \in SubmitResponses : submit(r)
    \/ \E r \in StatusResponses : poll(r)
    \/ \E r \in StatusResponses : poll_on(r)

\* Status answers that are 200 with a status outside {Queued, Running}.
TerminalResponses ==
    {r \in StatusResponses :
        r.status_code = 200 /\ r.json.status \notin NonTerminal}

\* The server answers a submit request; some status request is answered
\* 200 with a terminal status.
submit_answered == \E r \in SubmitResponses : submit(r)
poll_answered_terminal ==
    \E r \in TerminalResponses : poll(r) \/ poll_on(r)

\* What every answered request changes: the position in the call or the
\* record of the answers.
progress == <<pc, replies, answers>>

LiveSpec ==
    /\ Init
    /\ [][LiveNext]_vars
    /\ WF_progress(submit_answered)
    /\ WF_progress(poll_answered_terminal)

\* ------------------------------------------------------------- properties
\* The public call named op has ended.
Ended(op) == pc = "idle" /\ call.op = op

IsRequest(e, method, path) ==
    /\ e.ev = "request"
    /\ e.method = method
    /\ e.url = pre.api_url \o path
IsSubmit(e) == IsRequest(e, "POST", "/commands/execute")
IsStatus(e) == IsRequest(e, "GET", "/commands/status")

\* The code texts submitted so far by the call, in order.
SubmittedCommands ==
    LET s == SelectSeq(trace, IsSubmit)
    IN  [i \in 1..Len(s) |-> s[i].data.command]

\* Answers of the status endpoint, as the scripted transport gives them.
IsWaiting(a) == a.status_code = 200 /\ a.json.status \in NonTerminal
IsFinished(a) == a.status_code = 200 /\ a.json.status = "Finished"
LastAnswer == answers[Len(answers)]

\* The text the last run printed, if it finished with a text result.
PrintedText ==
    IF answers # <<>> /\ IsFinished(LastAnswer)
       /\ LastAnswer.json.results.resultType = "text"
    THEN LastAnswer.json.results.data
    ELSE None

\* C1 (as claimed): a create_context call that starts with a context id
\* stored returns False, sends nothing and leaves the id as it was.
C1_SecondCreateIsNoOp ==
    (Ended("create_context") /\ pre.context # None)
        => /\ ret = RetBool(PyFalse)
           /\ trace = <<>>
           /\ _context = pre.context

\* C2: a call of _execute, execute_R, install_py_package,
\* install_R_package or destroy_context that starts with no context id
\* stored ends at once with ContextNotSetException, sends nothing and
\* changes nothing, whatever the R-interop flag is.
NeedsContext ==
    {"_execute", "execute_R", "install_py_package", "install_R_package",
     "destroy_context"}
C2_NoContextRaises ==
    (call.op \in NeedsContext /\ pre.context = None)
        => /\ pc = "idle"
           /\ ret = Raise("ContextNotSetException")
           /\ trace = <<>>
           /\ ClientState = pre
C2_Witness ==
    /\ Ended("execute_R")
    /\ pre.context = None
    /\ pre.rpy2 = None
    /\ ret = Raise("ContextNotSetException")

\* C3: in a call of _execute whose status requests were answered 200 with
\* waiting statuses and then possibly 200 "Finished" (n answers so far,
\* n >= 1), what was sent is the submit request followed by n times (one
\* sleep of the configured interval, one status request); the call is
\* still polling while the last answer is a waiting one and has returned
\* the last answer's payload when it is "Finished".
C3_PollsUntilFinished ==
    LET n == Len(answers)
    IN  (/\ call.op = "_execute"
         /\ n >= 1
         /\ \A i \in 1..(n - 1) : IsWaiting(answers[i])
         /\ IsWaiting(answers[n]) \/ IsFinished(answers[n]))
        => /\ Len(trace) = 1 + 2 * n
           /\ IsSubmit(trace[1])
           /\ \A i \in 1..n :
                /\ trace[2 * i] = Sleep(pre.polling_int_sec)
                /\ IsStatus(trace[2 * i + 1])
           /\ IsWaiting(answers[n]) => pc = "poll"
           /\ IsFinished(answers[n])
                => pc = "idle" /\ ret = RetDict(answers[n].json)
C3_Witness ==
    /\ Ended("_execute")
    /\ Len(answers) = 3
    /\ answers[1].status_code = 200 /\ answers[1].json.status = "Queued"
    /\ answers[2].status_code = 200 /\ answers[2].json.status = "Queued"
    /\ IsFinished(answers[3])
    /\ ret.kind = "dict" /\ ret.payload.results.data = "42"
    /\ Len(SelectSeq(trace, IsStatus)) = 3

\* C4: a call of _execute whose poll loop has ended returns the payload of
\* the answer that ended the loop when its status is "Finished" and None
\* for every other status; it returns a payload in no other case.
C4_PayloadIffFinished ==
    Ended("_execute")
        => /\ answers # <<>>
                => /\ LastAnswer.status_code = 200
                   /\ LastAnswer.json.status \notin NonTerminal
                   /\ ret = IF LastAnswer.json.status = "Finished"
                            THEN RetDict(LastAnswer.json) ELSE RetNone
           /\ ret.kind = "dict" => answers # <<>>
C4_Witness ==
    /\ Ended("_execute")
    /\ answers # <<>>
    /\ LastAnswer.status_code = 200
    /\ LastAnswer.json.status = "Cancelled"
    /\ ret = RetNone

\* C5: _python_package_installed returns True exactly when its run printed
\* "Success" and False exactly when it printed "Failure";
\* _r_package_installed likewise for "TRUE" and "FALSE"; in every other
\* case (error result, other shape or text, no result) the call raises.
C5_PresenceCheckClassifies ==
    /\ Ended("_python_package_installed")
        => IF PrintedText = "Success" THEN ret = RetBool(PyTrue)
           ELSE IF PrintedText = "Failure" THEN ret = RetBool(PyFalse)
           ELSE ret.kind = "raise"
    /\ Ended("_r_package_installed")
        => IF PrintedText = "TRUE" THEN ret = RetBool(PyTrue)
           ELSE IF PrintedText = "FALSE" THEN ret = RetBool(PyFalse)
           ELSE ret.kind = "raise"
C5_Witness ==
    /\ Ended("_python_package_installed")
    /\ answers # <<>>
    /\ IsFinished(LastAnswer)
    /\ LastAnswer.json.results = [resultType |-> "table", data |-> "Success"]
    /\ ret = Raise("RuntimeError")

\* C6: when the first presence check of install_py_package or
\* install_R_package reports the package installed (one command submitted,
\* its run printed "Success" / "TRUE"), the call has returned True and the
\* probe is the only command it submitted.  This holds of every call,
\* so of a repeated one as well.
C6_InstalledMeansNoInstall ==
    /\ (/\ call.op = "install_py_package"
        /\ Len(SubmittedCommands) = 1
        /\ PrintedText = "Success")
        => /\ pc = "idle"
           /\ ret = RetBool(PyTrue)
           /\ SubmittedCommands = <<python_probe_code(call.arg)>>
    /\ (/\ call.op = "install_R_package"
        /\ Len(SubmittedCommands) = 1
        /\ PrintedText = "TRUE")
        => /\ pc = "idle"
           /\ ret = RetBool(PyTrue)
           /\ SubmittedCommands = <<r_probe_code(call.arg)>>
C6_Witness ==
    /\ Ended("install_py_package")
    /\ PrintedText = "Success"
    /\ ret = RetBool(PyTrue)
    /\ SubmittedCommands = <<python_probe_code("numpy")>>

\* C7 (as claimed): after the caller assigns a token through the attribute
\* api_token, the stored token is the new value, the Authorization header
\* is "Bearer <new token>" and the base URL is what it was.
C7_TokenAssignmentUpdatesHeaders ==
    Ended("api_token.setter")
        => /\ _api_token = call.arg
           /\ _headers = Headers(call.arg)
           /\ _api_url = pre.api_url

\* C8 (as claimed): create_context ends by returning a boolean and never
\* raises; it returns False only with the stored id left as it was and
\* True only after the create request was sent.
C8_CreateReturnsBoolean ==
    Ended("create_context")
        => /\ ret.kind = "bool"
           /\ ret = RetBool(PyFalse) => _context = pre.context
           /\ ret = RetBool(PyTrue) => trace # <<>>

\* C9 (as claimed): between calls, a stored context id implies that the
\* R-interop flag is a concrete boolean, and a flag that was a concrete
\* boolean when a call started is the same when the call has ended.
C9_FlagResolvedWithContext ==
    pc = "idle"
        => /\ _context # None => rpy2 \in {PyTrue, PyFalse}
           /\ pre.rpy2 \in {PyTrue, PyFalse} => rpy2 = pre.rpy2

\* C10 (as claimed): destroy_context never changes the stored id, a
\* create_context that starts with an id stored (destroyed or not) is
\* rejected with False, and an id once stored is never replaced by any
\* call.
C10_ContextIdWriteOnce ==
    /\ call.op = "destroy_context" => _context = pre.context
    /\ (Ended("create_context") /\ pre.context # None)
            => ret = RetBool(PyFalse)
    /\ pre.context # None => _context = pre.context

\* C11: a call of execute_R that starts with a context id stored and the
\* R-interop flag not True (False or unresolved) ends at once with False
\* and sends nothing; with the flag True it submits the wrapped code as its
\* only command and gives back what that run gives (the payload when it
\* finished, None otherwise, or the exception of _execute).
C11_ExecuteRNeedsFlag ==
    (call.op = "execute_R" /\ pre.context # None)
        => /\ pre.rpy2 # PyTrue
                => pc = "idle" /\ ret = RetBool(PyFalse) /\ trace = <<>>
           /\ (pre.rpy2 = PyTrue /\ pc = "idle")
                => /\ SubmittedCommands = <<r_wrap_code(call.arg)>>
                   /\ ret.kind \in {"dict", "None", "raise"}
                   /\ answers # <<>>
                        => ret = IF IsFinished(LastAnswer)
                                 THEN RetDict(LastAnswer.json) ELSE RetNone
C11_Witness ==
    /\ Ended("execute_R")
    /\ pre.context # None
    /\ pre.rpy2 = None
    /\ ret = RetBool(PyFalse)
    /\ trace = <<>>

\* C12: a create_context whose create request is answered non-200 has
\* returned False having sent that one request only (no probe, no retry),
\* with the stored id and the flag as they were; a destroy_context whose
\* destroy request is answered non-200 has returned False having sent that
\* one request only, with the client as it was.
C12_Non200IsFalse ==
    (/\ call.op \in {"create_context", "destroy_context"}
     /\ replies # <<>>
     /\ replies[1].status_code # 200)
        => /\ pc = "idle"
           /\ ret = RetBool(PyFalse)
           /\ Len(trace) = 1
           /\ ClientState = pre
C12_Witness ==
    /\ Ended("create_context")
    /\ replies = <<Non200>>
    /\ pre.rpy2 = None
    /\ _context = None
    /\ ret = RetBool(PyFalse)

\* C13 (as claimed): an _execute call whose submit request is answered
\* non-200 sends no status request and returns None without raising.
C13_FailedSubmitReturnsNone ==
    (/\ Ended("_execute")
     /\ replies # <<>>
     /\ replies[1].status_code # 200)
        => /\ ret = RetNone
           /\ Len(trace) = 1

\* Index of the last answer so far that was a 200 (0: none yet).
LastOk ==
    LET ok == {i \in 1..Len(answers) : answers[i].status_code = 200}
    IN  IF ok = {} THEN 0 ELSE CHOOSE i \in ok : \A j \in ok : j <= i

\* C14: after a non-200 status answer the call is still in the poll loop
\* and the tracked status and payload are those of the last 200 answer
\* ("Running" and nothing when there was none); an _execute call whose
\* loop ran has ended only on a 200 answer with a terminal status, and a
\* payload it returns is the body of that last answer.
C14_Non200PollIsIgnored ==
    /\ (answers # <<>> /\ LastAnswer.status_code # 200)
        => /\ pc = "poll"
           /\ status = IF LastOk = 0 THEN "Running"
                       ELSE answers[LastOk].json.status
           /\ command_info = IF LastOk = 0 THEN Unbound
                             ELSE answers[LastOk].json
    /\ (Ended("_execute") /\ answers # <<>>)
        => /\ LastAnswer.status_code = 200
           /\ LastAnswer.json.status \notin NonTerminal
    /\ (Ended("_execute") /\ ret.kind = "dict")
        => /\ answers # <<>>
           /\ IsFinished(LastAnswer)
           /\ ret.payload = LastAnswer.json
C14_Witness ==
    /\ Ended("_execute")
    /\ Len(answers) = 3
    /\ answers[1] = Non200
    /\ answers[2] = Non200
    /\ IsFinished(answers[3])
    /\ ret = RetDict(answers[3].json)
    /\ Len(SelectSeq(trace, IsStatus)) = 3

\* What a presence check gives back for the text its run printed.
Classified(yes, no) ==
    IF PrintedText = yes THEN ret = RetBool(PyTrue)
    ELSE IF PrintedText = no THEN ret = RetBool(PyFalse)
    ELSE ret.kind = "raise"

\* C16 (as claimed): an install call that went past its first presence
\* check (the package was reported missing) ends having submitted exactly
\* probe, install command, probe, and gives back what the second probe
\* gives (its boolean or its raise), whatever the install command did.
C16_ProbeInstallProbe ==
    /\ (Ended("install_py_package") /\ Len(SubmittedCommands) >= 2)
        => /\ SubmittedCommands = <<python_probe_code(call.arg),
                                    pip_install_code(call.arg),
                                    python_probe_code(call.arg)>>
           /\ Classified("Success", "Failure")
    /\ (Ended("install_R_package") /\ Len(SubmittedCommands) >= 2)
        => /\ SubmittedCommands = <<r_probe_code(call.arg),
                                    r_install_code(call.arg),
                                    r_probe_code(call.arg)>>
           /\ Classified("TRUE", "FALSE")

\* C17: a create_context whose create request is answered 200 while the
\* flag is already True or False has returned True having sent that one
\* request, the flag unchanged; whenever create_context has submitted a
\* command, the flag was in the probe state, the command is the rpy2
\* probe, it was sent after the create request, and it carries the id the
\* create answer gave, which is the stored id.
C17_ProbeOnlyWhenUnresolved ==
    (/\ call.op = "create_context"
     /\ replies # <<>>
     /\ replies[1].status_code = 200)
        => /\ pre.rpy2 \in {PyTrue, PyFalse}
                => /\ pc = "idle"
                   /\ ret = RetBool(PyTrue)
                   /\ Len(trace) = 1
                   /\ rpy2 = pre.rpy2
           /\ SubmittedCommands # <<>>
                => /\ pre.rpy2 = None
                   /\ SubmittedCommands = <<python_probe_code("rpy2")>>
                   /\ IsRequest(trace[1], "POST", "/contexts/create")
                   /\ IsSubmit(trace[2])
                   /\ _context = replies[1].json.id
                   /\ trace[2].data.contextId = replies[1].json.id
C17_Witness ==
    /\ Ended("create_context")
    /\ pre.rpy2 = PyFalse
    /\ replies = <<IdResponse("c1")>>
    /\ _context = "c1"
    /\ rpy2 = PyFalse
    /\ ret = RetBool(PyTrue)
    /\ Len(trace) = 1

\* C18: what a call of _execute has sent so far is one submit request
\* followed by sleeps and status requests only, and every status request
\* carries the run id of the submit answer, the stored context id and the
\* cluster id.
C18_SubmitThenStatusOnly ==
    (call.op = "_execute" /\ trace # <<>>)
        => /\ IsSubmit(trace[1])
           /\ Len(replies) = 1
           /\ \A i \in 2..Len(trace) :
                \/ trace[i].ev = "sleep"
                \/ /\ IsStatus(trace[i])
                   /\ replies[1].status_code = 200
                   /\ trace[i].params.commandId = replies[1].json.id
                   /\ trace[i].params.contextId = _context
                   /\ trace[i].params.clusterId = _cluster_id
C18_Witness ==
    /\ Ended("_execute")
    /\ _cluster_id = "cl1"
    /\ _context = "c1"
    /\ replies = <<IdResponse("r1")>>
    /\ Len(SelectSeq(trace, IsStatus)) = 2
    /\ trace[5].params.commandId = "r1"

\* C19: during and after a call of _execute, execute_R,
\* install_py_package or install_R_package every field of the client
\* (stored id, flag, token, headers, base URL, cluster id, polling
\* interval) is what it was when the call started, whatever the outcome;
\* once the call has ended the locals of the run are gone.
RunsCode ==
    {"_execute", "execute_R", "install_py_package", "install_R_package"}
C19_RunsLeaveClientUnchanged ==
    call.op \in RunsCode
        => /\ ClientState = pre
           /\ pc = "idle" => /\ run_id = Unbound /\ status = Unbound
                             /\ command_info = Unbound /\ body = Unbound
C19_Witness ==
    /\ Ended("install_R_package")
    /\ Len(SubmittedCommands) = 3
    /\ ret = RetBool(PyTrue)
    /\ pre.rpy2 = PyFalse
    /\ rpy2 = PyFalse

\* C15: however many status requests were answered, the poll loop is left
\* only on a 200 answer with a terminal status (no attempt bound, no
\* deadline); and, provided a status request is eventually answered that
\* way, every _execute call in the loop eventually leaves it on such an
\* answer, and every call in progress is eventually over.
IsTerminal(a) == a.status_code = 200 /\ a.json.status \notin NonTerminal
C15_ReturnsIffTerminalAnswer ==
    /\ []((answers # <<>> /\ ~IsTerminal(LastAnswer)) => pc = "poll")
    /\ (pc = "poll") ~> (pc # "poll" /\ answers # <<>> /\ IsTerminal(LastAnswer))
    /\ (pc # "idle") ~> (pc = "idle")
C15_Witness ==
    /\ Ended("_execute")
    /\ Len(answers) = MaxPolls
    /\ Len(trace) = 1 + 2 * MaxPolls
    /\ \A i \in 1..(MaxPolls - 1) : ~IsTerminal(answers[i])
    /\ answers[1] = Non200
    /\ IsTerminal(LastAnswer)
    /\ ret = RetNone

====
